---- MODULE Spec2Model ----
(***************************************************************************)
(* The Cart / CartEntry subsystem of src/models.py as a state machine.     *)
(*                                                                         *)
(* The store (the MenuItem, Cart, CartEntry, Order and OrderItem tables)   *)
(* is the shared state.  A request is one call of a Cart method; it runs   *)
(* as a sequence of steps, one step per statement that touches the store,  *)
(* so that the states between two persistence steps of a method are states *)
(* of the model.  Requests are served one at a time (serial = TRUE) or     *)
(* interleaved without any lock (serial = FALSE): the methods take no lock *)
(* and open no transaction.                                                *)
(*                                                                         *)
(* Reading of the source.  The three methods do not parse as written       *)
(* ("def remove_menu_item:", "if item_exists.quantity=0:", the method      *)
(* bodies at the indentation of their def).  They are read with the        *)
(* parameter lists (self, menu_item_id) / (self), with "==" for the "=" of *)
(* line 284, and with the framework names they use (ObjectDoesNotExist,    *)
(* Model.DoesNotExist, Model.MultipleObjectsReturned, objects.get/create,  *)
(* save, delete) bound to Django's.  Everything else is taken as written:  *)
(* line 265 evaluates item.exists on a MenuItem, which has no such         *)
(* attribute, and line 296 evaluates the name "this", which is bound       *)
(* nowhere.                                                                *)
(***************************************************************************)
EXTENDS Integers, FiniteSets, Sequences, TLC

\* Bounds of the model.
MaxQty == 2
MaxInitRows == 1
MaxCalls == 3

\* Identifier universes.
Carts == {"c1", "c2"}
MenuItemIds == {1, 2}
RequestIds == MenuItemIds \cup {3}
Procs == {1, 2}

VARIABLES
    menuItem,    \* primary keys of the MenuItem rows
    totalCost,   \* Cart.total_cost of each cart
    cartEntry,   \* the CartEntry rows
    nextId,      \* next primary key of the CartEntry table
    order,       \* primary keys of the Order rows
    orderItem,   \* the OrderItem rows
    serial,      \* TRUE: the host serves one request at a time
    pc,          \* position of each request
    call,        \* method and arguments of each request
    local,       \* the in-memory CartEntry instance of each request
    found,       \* the row each request's CartEntry.objects.get returned
    pre,         \* the store as it was when each request started
    result,      \* how each request's last call ended
    ncalls       \* number of calls made so far

vars == <<menuItem, totalCost, cartEntry, nextId, order, orderItem, serial,
          pc, call, local, found, pre, result, ncalls>>

store == <<menuItem, totalCost, cartEntry, nextId, order, orderItem>>

NoInstance == [id |-> 0, cart |-> "none", menu_item |-> 0, quantity |-> 0]
NoCall == [op |-> "none", cart |-> "none", menu_item_id |-> 0]

Snapshot == [cartEntry |-> cartEntry, order |-> order, orderItem |-> orderItem,
             totalCost |-> totalCost]

----------------------------------------------------------------------------
\* The ORM operations the methods use.

\* CartEntry.objects.get(cart=c, menu_item=m): the rows the filter selects.
Matching(rows, c, m) == {r \in rows : r.cart = c /\ r.menu_item = m}

\* NewEntry with the quantity left at zero.
NewEntryZeroQuantity(id, c, m) ==
    [id |-> id, cart |-> c, menu_item |-> m, quantity |-> 0]

\* CartEntry.objects.create(cart=c, menu_item=m, quantity=1): the new row.
NewEntry(id, c, m) == [id |-> id, cart |-> c, menu_item |-> m, quantity |-> 1]

\* instance.save(): UPDATE the row with the instance's primary key, INSERT
\* it when no row has that key.
Save(rows, inst) == {r \in rows : r.id # inst.id} \cup {inst}

\* instance.delete(): DELETE the row with the instance's primary key.
Delete(rows, inst) == {r \in rows : r.id # inst.id}

\* The CHECK (quantity >= 0) of PositiveIntegerField.
QuantityAllowed(q) == q >= 0

----------------------------------------------------------------------------
\* Initial states.

InitStores ==
    UNION { { {[id |-> i, cart |-> f[i][1], menu_item |-> f[i][2],
                quantity |-> f[i][3]] : i \in 1..n}
              : f \in {g \in [1..n -> Carts \X MenuItemIds \X (1..MaxQty)] :
                         \A i, j \in 1..n :
                            (g[i][1] = g[j][1] /\ g[i][2] = g[j][2]) => i = j} }
            : n \in 0..MaxInitRows }

InitCommon ==
    /\ menuItem = MenuItemIds
    /\ totalCost = [c \in Carts |-> 0]
    /\ order = {}
    /\ orderItem = {}
    /\ pc = [p \in Procs |-> "idle"]
    /\ call = [p \in Procs |-> NoCall]
    /\ local = [p \in Procs |-> NoInstance]
    /\ found = [p \in Procs |-> NoInstance]
    /\ result = [p \in Procs |-> "none"]
    /\ ncalls = 0

InitStore ==
    /\ cartEntry \in InitStores
    /\ nextId = Cardinality(cartEntry) + 1
    /\ pre = [p \in Procs |-> [cartEntry |-> cartEntry, order |-> {},
                               orderItem |-> {},
                               totalCost |-> [c \in Carts |-> 0]]]

Init == InitCommon /\ InitStore /\ serial = TRUE

InitEmpty == InitCommon /\ InitStore /\ cartEntry = {} /\ serial = TRUE

InitConc == InitCommon /\ InitStore /\ serial = FALSE

----------------------------------------------------------------------------
\* Requests.

Workers == IF serial THEN {1} ELSE Procs

CanCall(p) ==
    /\ p \in Workers
    /\ pc[p] = "idle"
    /\ ncalls < MaxCalls

Start(p, op, c, id, at) ==
    /\ call' = [call EXCEPT ![p] = [op |-> op, cart |-> c, menu_item_id |-> id]]
    /\ pc' = [pc EXCEPT ![p] = at]
    /\ local' = [local EXCEPT ![p] = NoInstance]
    /\ found' = [found EXCEPT ![p] = NoInstance]
    /\ pre' = [pre EXCEPT ![p] = Snapshot]
    /\ result' = [result EXCEPT ![p] = "none"]
    /\ ncalls' = ncalls + 1
    /\ UNCHANGED <<store, serial>>

Finish(p, res) ==
    /\ pc' = [pc EXCEPT ![p] = "idle"]
    /\ result' = [result EXCEPT ![p] = res]

Goto(p, at) ==
    /\ pc' = [pc EXCEPT ![p] = at]
    /\ UNCHANGED result

\* A request calls cart.add_menu_item(menu_item_id).
CallAdd(p) ==
    /\ CanCall(p)
    /\ \E c \in Carts, id \in RequestIds : Start(p, "add_menu_item", c, id, "add_261")

\* A request calls cart.remove_menu_item(menu_item_id).
CallRemove(p) ==
    /\ CanCall(p)
    /\ \E c \in Carts, id \in RequestIds : Start(p, "remove_menu_item", c, id, "rm_279")

\* A request calls cart.checkout().
CallCheckout(p) ==
    /\ CanCall(p)
    /\ \E c \in Carts : Start(p, "checkout", c, 0, "co_296")

----------------------------------------------------------------------------
\* Cart.add_menu_item(self, menu_item_id), lines 256-270.

\* AddGetItem without the except clause of line 269.
AddGetItemUncaught(p) ==
    /\ pc[p] = "add_261"
    /\ IF call[p].menu_item_id \in menuItem
          THEN Goto(p, "add_263")
          ELSE Finish(p, "DoesNotExist")
    /\ UNCHANGED <<store, serial, call, local, found, pre, ncalls>>

\* Line 261: item = MenuItem.objects.get(pk=menu_item_id).  MenuItem.DoesNotExist
\* is an ObjectDoesNotExist: line 269 catches it and line 270 passes.
AddGetItem(p) ==
    /\ pc[p] = "add_261"
    /\ IF call[p].menu_item_id \in menuItem
          THEN Goto(p, "add_263")
          ELSE Finish(p, "returned")
    /\ UNCHANGED <<store, serial, call, local, found, pre, ncalls>>

\* AddGetEntry that takes the create branch whatever the lookup finds.
AddGetEntryAlwaysCreates(p) ==
    /\ pc[p] = "add_263"
    /\ Goto(p, "add_267")
    /\ UNCHANGED <<store, serial, call, local, found, pre, ncalls>>

\* Line 263: item_exists = CartEntry.objects.get(cart=self, menu_item=item).
\* No row: CartEntry.DoesNotExist, caught at line 266.  Several rows:
\* CartEntry.MultipleObjectsReturned, which no except clause catches.
AddGetEntry(p) ==
    /\ pc[p] = "add_263"
    /\ LET rows == Matching(cartEntry, call[p].cart, call[p].menu_item_id) IN
       IF rows = {}
          THEN Goto(p, "add_267") /\ UNCHANGED <<local, found>>
          ELSE IF Cardinality(rows) = 1
             THEN /\ Goto(p, "add_264")
                  /\ local' = [local EXCEPT ![p] = CHOOSE r \in rows : TRUE]
                  /\ found' = [found EXCEPT ![p] = CHOOSE r \in rows : TRUE]
             ELSE Finish(p, "MultipleObjectsReturned") /\ UNCHANGED <<local, found>>
    /\ UNCHANGED <<store, serial, call, pre, ncalls>>

\* Lines 264-265: item_exists.quantity += 1 changes the instance in memory;
\* item.exists.save() then looks up "exists" on the MenuItem and raises
\* AttributeError before any save.  AttributeError is neither a
\* CartEntry.DoesNotExist nor an ObjectDoesNotExist: it leaves the method.
AddSave(p) ==
    /\ pc[p] = "add_264"
    /\ local' = [local EXCEPT ![p].quantity = @ + 1]
    /\ Finish(p, "AttributeError")
    /\ UNCHANGED <<store, serial, call, found, pre, ncalls>>

\* AddCreate that also adds to the cart's total_cost.
AddCreateUpdatesTotal(p) ==
    /\ pc[p] = "add_267"
    /\ LET row == NewEntry(nextId, call[p].cart, call[p].menu_item_id) IN
       /\ cartEntry' = cartEntry \cup {row}
       /\ local' = [local EXCEPT ![p] = row]
    /\ nextId' = nextId + 1
    /\ totalCost' = [totalCost EXCEPT ![call[p].cart] = @ + 1]
    /\ Goto(p, "add_268")
    /\ UNCHANGED <<menuItem, order, orderItem, serial, call, found, pre, ncalls>>

\* Line 267: new_entry = CartEntry.objects.create(cart=self, menu_item=item,
\* quantity=1) inserts the row.
AddCreate(p) ==
    /\ pc[p] = "add_267"
    /\ LET row == NewEntry(nextId, call[p].cart, call[p].menu_item_id) IN
       /\ cartEntry' = cartEntry \cup {row}
       /\ local' = [local EXCEPT ![p] = row]
    /\ nextId' = nextId + 1
    /\ Goto(p, "add_268")
    /\ UNCHANGED <<menuItem, totalCost, order, orderItem, serial, call, found,
                   pre, ncalls>>

\* AddCreateSave whose save inserts a second row instead of updating the
\* row that create inserted.
AddCreateSaveInserts(p) ==
    /\ pc[p] = "add_268"
    /\ cartEntry' = cartEntry \cup {[local[p] EXCEPT !.id = nextId]}
    /\ nextId' = nextId + 1
    /\ Finish(p, "returned")
    /\ UNCHANGED <<menuItem, totalCost, order, orderItem, serial, call,
                   local, found, pre, ncalls>>

\* Line 268: new_entry.save().
AddCreateSave(p) ==
    /\ pc[p] = "add_268"
    /\ cartEntry' = Save(cartEntry, local[p])
    /\ Finish(p, "returned")
    /\ UNCHANGED <<menuItem, totalCost, nextId, order, orderItem, serial, call,
                   local, found, pre, ncalls>>

----------------------------------------------------------------------------
\* Cart.remove_menu_item(self, menu_item_id), lines 274-289.

\* Line 279: item = MenuItem.objects.get(pk=menu_item_id); lines 288-289.
RemoveGetItem(p) ==
    /\ pc[p] = "rm_279"
    /\ IF call[p].menu_item_id \in menuItem
          THEN Goto(p, "rm_281")
          ELSE Finish(p, "returned")
    /\ UNCHANGED <<store, serial, call, local, found, pre, ncalls>>

\* Line 281: item_exists = CartEntry.objects.get(cart=self, menu_item=item);
\* lines 286-287 pass on CartEntry.DoesNotExist.
RemoveGetEntry(p) ==
    /\ pc[p] = "rm_281"
    /\ LET rows == Matching(cartEntry, call[p].cart, call[p].menu_item_id) IN
       IF rows = {}
          THEN Finish(p, "returned") /\ UNCHANGED <<local, found>>
          ELSE IF Cardinality(rows) = 1
             THEN /\ Goto(p, "rm_282")
                  /\ local' = [local EXCEPT ![p] = CHOOSE r \in rows : TRUE]
                  /\ found' = [found EXCEPT ![p] = CHOOSE r \in rows : TRUE]
             ELSE Finish(p, "MultipleObjectsReturned") /\ UNCHANGED <<local, found>>
    /\ UNCHANGED <<store, serial, call, pre, ncalls>>

\* Lines 282-283: item_exists.quantity -= 1; item_exists.save().  The store
\* refuses a quantity the field's check forbids (IntegrityError, uncaught).
RemoveSave(p) ==
    /\ pc[p] = "rm_282"
    /\ LET inst == [local[p] EXCEPT !.quantity = @ - 1] IN
       /\ local' = [local EXCEPT ![p] = inst]
       /\ IF QuantityAllowed(inst.quantity)
             THEN cartEntry' = Save(cartEntry, inst) /\ Goto(p, "rm_284")
             ELSE UNCHANGED cartEntry /\ Finish(p, "IntegrityError")
    /\ UNCHANGED <<menuItem, totalCost, nextId, order, orderItem, serial, call,
                   found, pre, ncalls>>

\* RemoveTest that never deletes.
RemoveTestNeverDeletes(p) ==
    /\ pc[p] = "rm_284"
    /\ Finish(p, "returned")
    /\ UNCHANGED <<store, serial, call, local, found, pre, ncalls>>

\* RemoveTest that deletes at quantity <= 1.
RemoveTestDeletesAtOne(p) ==
    /\ pc[p] = "rm_284"
    /\ IF local[p].quantity <= 1
          THEN cartEntry' = Delete(cartEntry, local[p])
          ELSE UNCHANGED cartEntry
    /\ Finish(p, "returned")
    /\ UNCHANGED <<menuItem, totalCost, nextId, order, orderItem, serial, call,
                   local, found, pre, ncalls>>

\* Lines 284-285: if item_exists.quantity == 0: item_exists.delete().
RemoveTest(p) ==
    /\ pc[p] = "rm_284"
    /\ IF local[p].quantity = 0
          THEN cartEntry' = Delete(cartEntry, local[p])
          ELSE UNCHANGED cartEntry
    /\ Finish(p, "returned")
    /\ UNCHANGED <<menuItem, totalCost, nextId, order, orderItem, serial, call,
                   local, found, pre, ncalls>>

----------------------------------------------------------------------------
\* Cart.checkout(self), lines 292-296.

\* Line 296: new_order = Order.objects.create(order_date=this.order_date).
\* The argument is evaluated before the call: the name "this" is unbound,
\* NameError leaves the method and no Order is created.  The method has no
\* further statement: no OrderItem is created, no CartEntry is deleted.
Checkout(p) ==
    /\ pc[p] = "co_296"
    /\ Finish(p, "NameError")
    /\ UNCHANGED <<store, serial, call, local, found, pre, ncalls>>

----------------------------------------------------------------------------
Next ==
    \E p \in Procs :
        \/ CallAdd(p)
        \/ CallRemove(p)
        \/ CallCheckout(p)
        \/ AddGetItem(p)
        \/ AddGetEntry(p)
        \/ AddSave(p)
        \/ AddCreate(p)
        \/ AddCreateSave(p)
        \/ RemoveGetItem(p)
        \/ RemoveGetEntry(p)
        \/ RemoveSave(p)
        \/ RemoveTest(p)
        \/ Checkout(p)

\* Requests served one at a time, from any well-formed store.
Spec == Init /\ [][Next]_vars

\* Requests served one at a time, from an empty CartEntry table.
SpecEmpty == InitEmpty /\ [][Next]_vars

\* Requests interleaved step by step.
SpecConc == InitConc /\ [][Next]_vars

TypeOK ==
    /\ \A r \in cartEntry : r.cart \in Carts /\ r.menu_item \in menuItem
    /\ \A p \in Procs : pc[p] = "idle" \/ result[p] = "none"

----------------------------------------------------------------------------
\* The claims.

\* A request's call has ended (returned or raised).
Done(p) == pc[p] = "idle" /\ result[p] # "none"

\* The CartEntry rows of the call's (cart, item) when the call started.
PreRows(p) == Matching(pre[p].cartEntry, call[p].cart, call[p].menu_item_id)

AddedNew(p) ==
    /\ Done(p)
    /\ call[p].op = "add_menu_item"
    /\ call[p].menu_item_id \in menuItem
    /\ PreRows(p) = {}

\* C1: add_menu_item(c, m) for an existing item m of which c holds no entry
\* creates exactly one CartEntry (c, m) with quantity 1 and leaves every
\* other CartEntry unchanged.
C1_AddNewCreatesOneEntry ==
    \A p \in Procs :
        AddedNew(p) =>
            \E r \in cartEntry :
                /\ r.cart = call[p].cart
                /\ r.menu_item = call[p].menu_item_id
                /\ r.quantity = 1
                /\ \A e \in pre[p].cartEntry : e.id # r.id
                /\ cartEntry = pre[p].cartEntry \cup {r}

C1_Witness ==
    \E p \in Procs :
        /\ AddedNew(p)
        /\ pre[p].cartEntry # {}
        /\ Cardinality(cartEntry) >= 2

AddedExisting(p) ==
    /\ Done(p)
    /\ call[p].op = "add_menu_item"
    /\ Cardinality(PreRows(p)) = 1

\* C2: add_menu_item(c, m) on a cart that holds the entry (c, m) with
\* quantity q leaves that entry stored with quantity q+1 and creates no row.
C2_AddExistingIncrements ==
    \A p \in Procs :
        AddedExisting(p) =>
            \A e \in PreRows(p) :
                cartEntry = (pre[p].cartEntry \ {e})
                               \cup {[e EXCEPT !.quantity = @ + 1]}

Removed(p) ==
    /\ Done(p)
    /\ call[p].op = "remove_menu_item"

\* C3: remove_menu_item(c, m) on a cart that holds the entry (c, m) with
\* quantity 1 deletes that entry, and no remove_menu_item call leaves a
\* CartEntry with a negative quantity.
C3_RemoveLastDeletes ==
    \A p \in Procs :
        Removed(p) =>
            /\ \A r \in cartEntry : r.quantity >= 0
            /\ \A e \in PreRows(p) :
                  e.quantity = 1 => cartEntry = pre[p].cartEntry \ {e}

C3_Witness ==
    \E p \in Procs :
        /\ Removed(p)
        /\ \E e \in PreRows(p) : e.quantity = 1
        /\ cartEntry # {}

\* C4: remove_menu_item(c, m) on a cart that holds the entry (c, m) with
\* quantity q > 1 leaves that entry stored with quantity q-1 and does not
\* delete it.
C4_RemoveDecrements ==
    \A p \in Procs :
        Removed(p) =>
            \A e \in PreRows(p) :
                e.quantity > 1 =>
                    cartEntry = (pre[p].cartEntry \ {e})
                                   \cup {[e EXCEPT !.quantity = @ - 1]}

C4_Witness ==
    \E p \in Procs :
        /\ Removed(p)
        /\ \E e \in PreRows(p) : e.quantity > 1
        /\ Cardinality(cartEntry) >= 2

\* C5: checkout(c) creates exactly one Order with one OrderItem per CartEntry
\* of c carrying the same (item, quantity), and leaves c without CartEntry.
C5_CheckoutMakesOrder ==
    \A p \in Procs :
        (Done(p) /\ call[p].op = "checkout") =>
            /\ \E o \in order :
                  /\ o \notin pre[p].order
                  /\ order = pre[p].order \cup {o}
                  /\ {[item |-> i.item, quantity |-> i.quantity] :
                         i \in {j \in orderItem : j.order = o}}
                       = {[item |-> e.menu_item, quantity |-> e.quantity] :
                            e \in {f \in pre[p].cartEntry : f.cart = call[p].cart}}
            /\ {e \in cartEntry : e.cart = call[p].cart} = {}

UnknownItem(p) ==
    /\ Done(p)
    /\ call[p].op \in {"add_menu_item", "remove_menu_item"}
    /\ call[p].menu_item_id \notin menuItem

C7_OneEntryPerPair ==
    \A c \in Carts, m \in MenuItemIds :
        Cardinality(Matching(cartEntry, c, m)) <= 1

C7_Witness ==
    \E p \in Procs : AddedExisting(p) /\ PreRows(p) \subseteq cartEntry

C9_ConcurrentAddsLoseOneUpdate ==
    ( /\ \A p \in Procs : Done(p) /\ call[p].op = "add_menu_item"
      /\ call[1].cart = call[2].cart
      /\ call[1].menu_item_id = call[2].menu_item_id
      /\ found[1] # NoInstance
      /\ found[1] = found[2]
      /\ ncalls = 2 )
    => \E r \in cartEntry :
          r.id = found[1].id /\ r.quantity = found[1].quantity + 1

\* C10: no step of add_menu_item or remove_menu_item (nor any other step)
\* changes a cart's total_cost.
C10_TotalCostNeverChanges == [][totalCost' = totalCost]_vars

C10_Witness ==
    \E p \in Procs :
        /\ Done(p)
        /\ call[p].op \in {"add_menu_item", "remove_menu_item"}
        /\ cartEntry # pre[p].cartEntry
        /\ ncalls >= 2

====
